---- MODULE Spec2Model ----
(***************************************************************************)
(* Extraction and decision pipeline of the job-application parser:         *)
(*   backend/app/ai_service.py      AIJobApplicationParser                 *)
(*   backend/app/email_processor.py EmailProcessor                         *)
(* Texts are strings handled character by character; Python values are    *)
(* tagged records; a confidence c is the integer 100000 * c.               *)
(***************************************************************************)
EXTENDS Integers, Sequences, FiniteSets, TLC

VARIABLES pc, emails, idx, response, parsed, results, db, calls, hist

vars == <<pc, emails, idx, response, parsed, results, db, calls, hist>>

(***************************************************************************)
(* Text primitives (Python str)                                            *)
(***************************************************************************)
Ch(s, i) == SubSeq(s, i, i)

UpperLetters == "ABCDEFGHIJKLMNOPQRSTUVWXYZ"

LowerLetters == "abcdefghijklmnopqrstuvwxyz"

UpperSet == {Ch(UpperLetters, i) : i \in 1..Len(UpperLetters)}

LowerSet == {Ch(LowerLetters, i) : i \in 1..Len(LowerLetters)}

IsUpper(c) == c \in UpperSet

IsLower(c) == c \in LowerSet

\* regex class [a-zA-Z]
IsLetter(c) == IsUpper(c) \/ IsLower(c)

\* regex class \s
IsWs(c) == c \in {" ", "\n", "\t"}

LowerChar(c) ==
    IF IsUpper(c)
    THEN Ch(LowerLetters, CHOOSE i \in 1..Len(UpperLetters) : Ch(UpperLetters, i) = c)
    ELSE c

\* str.lower()
RECURSIVE Lower(_)
Lower(s) == IF s = "" THEN "" ELSE LowerChar(Ch(s, 1)) \o Lower(SubSeq(s, 2, Len(s)))

\* s[i:i+len(kw)] == kw
HasAt(s, kw, i) == i >= 1 /\ i + Len(kw) - 1 <= Len(s) /\ SubSeq(s, i, i + Len(kw) - 1) = kw

\* kw in s
Contains(s, kw) == \E i \in 1..Len(s) : HasAt(s, kw, i)

\* str.strip()
Strip(s) ==
    LET keep == {i \in 1..Len(s) : ~IsWs(Ch(s, i))}
    IN  IF keep = {} THEN ""
        ELSE SubSeq(s, CHOOSE i \in keep : \A j \in keep : i <= j,
                       CHOOSE i \in keep : \A j \in keep : i >= j)

\* s[:n]
Prefix(s, n) == SubSeq(s, 1, IF Len(s) < n THEN Len(s) ELSE n)

Min(S) == CHOOSE i \in S : \A j \in S : i <= j

Max(S) == CHOOSE i \in S : \A j \in S : i >= j

(***************************************************************************)
(* re.search for the two pattern shapes the parser uses.  A class is one   *)
(* of "s" (\s), "cs" ([:\s]), "az" ([a-zA-Z\s]), "az&" ([a-zA-Z\s&]).      *)
(* The result is [m |-> TRUE, g |-> group(1)] or NoMatch.                  *)
(***************************************************************************)
InClass(c, cls) ==
    \/ IsWs(c)
    \/ cls = "cs" /\ c = ":"
    \/ cls \in {"az", "az&"} /\ IsLetter(c)
    \/ cls = "az&" /\ c = "&"

\* last index of the maximal run of class characters that starts at i (i - 1 if none)
RECURSIVE RunEnd(_, _, _)
RunEnd(s, i, cls) ==
    IF i > Len(s) \/ ~InClass(Ch(s, i), cls) THEN i - 1 ELSE RunEnd(s, i + 1, cls)

NoMatch == [m |-> FALSE, g |-> ""]

Matched(g) == [m |-> TRUE, g |-> g]

\* the k separator characters kw SEP+ may consume at start i so that a group follows
PrefixSeps(s, kw, sep, grp, i) ==
    LET j == i + Len(kw)
    IN  {k \in 1..(RunEnd(s, j, sep) - j + 1) :
            j + k <= Len(s) /\ InClass(Ch(s, j + k), grp)}

\* re.search(kw SEP+ (GRP+), s): leftmost start, greedy separators, greedy group
SearchPrefix(s, kw, sep, grp) ==
    LET starts == {i \in 1..Len(s) : HasAt(s, kw, i) /\ PrefixSeps(s, kw, sep, grp, i) # {}}
    IN  IF starts = {} THEN NoMatch
        ELSE LET i == Min(starts)
                 b == i + Len(kw) + Max(PrefixSeps(s, kw, sep, grp, i))
             IN  Matched(SubSeq(s, b, RunEnd(s, b, grp)))

\* the ends g of a group starting at i after which \s+ kw follows
SuffixEnds(s, kw, grp, i) ==
    {g \in i..RunEnd(s, i, grp) :
        /\ g < Len(s)
        /\ IsWs(Ch(s, g + 1))
        /\ HasAt(s, kw, RunEnd(s, g + 1, "s") + 1)}

\* re.search((GRP+) \s+ kw, s): leftmost start, greedy group.  A start inside a run
\* of group characters matches only if the run's first character does, so the
\* leftmost start is the first character of a run.
SearchSuffix(s, kw, grp) ==
    LET starts == {i \in 1..Len(s) :
                      /\ InClass(Ch(s, i), grp)
                      /\ (i = 1 \/ ~InClass(Ch(s, i - 1), grp))
                      /\ SuffixEnds(s, kw, grp, i) # {}}
    IN  IF starts = {} THEN NoMatch
        ELSE LET i == Min(starts)
             IN  Matched(SubSeq(s, i, Max(SuffixEnds(s, kw, grp, i))))

(***************************************************************************)
(* Python values: None, str, float (as an integer number of 1e-5 units,    *)
(* so 0.6 is 60000 and 0.59999 is 59999), datetime, and the raw reply text  *)
(***************************************************************************)
None == [t |-> "none"]

Str(s) == [t |-> "str", s |-> s]

Num(n) == [t |-> "num", n |-> n]

Datetime(s) == [t |-> "datetime", s |-> s]

\* datetime.now()
Now == Datetime("now")

RawText(toks) == [t |-> "text", toks |-> toks]

\* bool(v)
Truthy(v) ==
    CASE v.t = "none" -> FALSE
      [] v.t = "str" -> v.s # ""
      [] v.t = "num" -> v.n # 0
      [] v.t = "text" -> v.toks # <<>>
      [] OTHER -> TRUE

\* dict.get(k) and dict.get(k, default)
GetOr(d, k, default) == IF k \in DOMAIN d THEN d[k] ELSE default

Get(d, k) == GetOr(d, k, None)

\* d[k] = v
Put(d, k, v) == [x \in DOMAIN d \cup {k} |-> IF x = k THEN v ELSE d[x]]

(***************************************************************************)
(* AIJobApplicationParser._try_structured_parsing                          *)
(***************************************************************************)
LeverConfidence == 90000

GreenhouseConfidence == 90000

WorkdayConfidence == 85000

PrefixPattern(kw, sep, grp) == [shape |-> "prefix", kw |-> kw, sep |-> sep, grp |-> grp]

SuffixPattern(kw, grp) == [shape |-> "suffix", kw |-> kw, sep |-> "s", grp |-> grp]

\* re.search(pattern, s)
Search(p, s) ==
    IF p.shape = "prefix" THEN SearchPrefix(s, p.kw, p.sep, p.grp)
    ELSE SearchSuffix(s, p.kw, p.grp)

\* the patterns table
Patterns(ats) ==
    CASE ats = "lever" ->
            [company_pattern |-> PrefixPattern("at", "s", "az&"),
             role_pattern |-> PrefixPattern("position", "cs", "az"),
             confidence |-> LeverConfidence]
      [] ats = "greenhouse" ->
            [company_pattern |-> SuffixPattern("application", "az&"),
             role_pattern |-> SuffixPattern("position", "az"),
             confidence |-> GreenhouseConfidence]
      [] ats = "workday" ->
            [company_pattern |-> SuffixPattern("careers", "az&"),
             role_pattern |-> SuffixPattern("job", "az"),
             confidence |-> WorkdayConfidence]

\* an identification that tests greenhouse before lever
AtsSystemGreenhouseFirst(email) ==
    LET body == Lower(email.body)
        sender == email.sender
    IN  IF Contains(sender, "greenhouse") \/ Contains(body, "greenhouse") THEN "greenhouse"
        ELSE IF Contains(sender, "lever") \/ Contains(body, "lever") THEN "lever"
        ELSE IF Contains(sender, "workday") \/ Contains(body, "workday") THEN "workday"
        ELSE ""

\* the ats_system chosen from the sender and the lowercased body ("" for None)
AtsSystem(email) ==
    LET body == Lower(email.body)
        sender == email.sender
    IN  IF Contains(sender, "lever") \/ Contains(body, "lever") THEN "lever"
        ELSE IF Contains(sender, "greenhouse") \/ Contains(body, "greenhouse") THEN "greenhouse"
        ELSE IF Contains(sender, "workday") \/ Contains(body, "workday") THEN "workday"
        ELSE ""

\* subject + ' ' + body, both lowercased
SearchText(email) == Lower(email.subject) \o " " \o Lower(email.body)

\* the result dict, or None for "no match"
TryStructuredParsing(email) ==
    LET ats == AtsSystem(email)
    IN  IF ats = "" THEN None
        ELSE LET pattern == Patterns(ats)
                 company_match == Search(pattern.company_pattern, SearchText(email))
                 role_match == Search(pattern.role_pattern, SearchText(email))
             IN  IF company_match.m /\ role_match.m
                 THEN [company |-> Str(Strip(company_match.g)),
                       role |-> Str(Strip(role_match.g)),
                       date_applied |-> Now,
                       source |-> Str("email"),
                       status |-> Str("applied"),
                       confidence |-> Num(pattern.confidence),
                       reasoning |-> Str("Parsed using " \o ats \o " ATS patterns")]
                 ELSE None

(***************************************************************************)
(* AIJobApplicationParser._fallback_parsing                                *)
(***************************************************************************)
FallbackMatchConfidence == 30000

FallbackNoMatchConfidence == 0

CompanyPatterns ==
    <<PrefixPattern("at", "s", "az&"),
      SuffixPattern("application", "az&"),
      SuffixPattern("careers", "az&")>>

RolePatterns ==
    <<SuffixPattern("position", "az"),
      SuffixPattern("role", "az"),
      SuffixPattern("engineer", "az")>>

\* the for loop over a pattern list: the first match's group(1).strip(), else None
FirstMatch(patterns, text) ==
    LET hits == {i \in 1..Len(patterns) : Search(patterns[i], text).m}
    IN  IF hits = {} THEN None
        ELSE Str(Strip(Search(patterns[Min(hits)], text).g))

\* a policy that wants both fields: "company and role" for "company or role"
FallbackParsingBoth(email) ==
    LET company == FirstMatch(CompanyPatterns, SearchText(email))
        role == FirstMatch(RolePatterns, SearchText(email))
        either == Truthy(company) /\ Truthy(role)
    IN  [company |-> company,
         role |-> role,
         date_applied |-> Now,
         source |-> Str("email"),
         status |-> IF either THEN Str("applied") ELSE Str("unclear"),
         confidence |-> IF either THEN Num(FallbackMatchConfidence)
                        ELSE Num(FallbackNoMatchConfidence),
         reasoning |-> Str("Fallback parsing used - limited confidence")]

FallbackParsing(email) ==
    LET company == FirstMatch(CompanyPatterns, SearchText(email))
        role == FirstMatch(RolePatterns, SearchText(email))
        either == Truthy(company) \/ Truthy(role)
    IN  [company |-> company,
         role |-> role,
         date_applied |-> Now,
         source |-> Str("email"),
         status |-> IF either THEN Str("applied") ELSE Str("unclear"),
         confidence |-> IF either THEN Num(FallbackMatchConfidence)
                        ELSE Num(FallbackNoMatchConfidence),
         reasoning |-> Str("Fallback parsing used - limited confidence")]

(***************************************************************************)
(* AIJobApplicationParser._parse_ai_response.  The generated text is a     *)
(* sequence of tokens: "{", "}", a run of other text ("junk"), or one      *)
(* "key": value member of a JSON object.                                   *)
(***************************************************************************)
LBrace == [k |-> "{", v |-> None]

RBrace == [k |-> "}", v |-> None]

Junk == [k |-> "junk", v |-> None]

Member(k, v) == [k |-> k, v |-> v]

IsMember(tok) == tok.k \notin {"{", "}", "junk"}

\* str.find and str.rfind, 0-based, -1 when absent
Find(text, tok) ==
    LET at == {i \in 1..Len(text) : text[i] = tok}
    IN  IF at = {} THEN -1 ELSE Min(at) - 1

RFind(text, tok) ==
    LET at == {i \in 1..Len(text) : text[i] = tok}
    IN  IF at = {} THEN -1 ELSE Max(at) - 1

\* text[a:b] with Python's treatment of negative and out-of-range indices
PySlice(text, a, b) ==
    LET n == Len(text)
        norm(i) == IF i < 0 THEN (IF i + n < 0 THEN 0 ELSE i + n)
                   ELSE IF i > n THEN n ELSE i
    IN  SubSeq(text, norm(a) + 1, norm(b))

\* json.loads accepts json_str: one object, "{" members "}"
JsonValid(json_str) ==
    /\ Len(json_str) >= 2
    /\ json_str[1] = LBrace
    /\ json_str[Len(json_str)] = RBrace
    /\ \A i \in 2..(Len(json_str) - 1) : IsMember(json_str[i])

\* the dict json.loads returns (a repeated key keeps its last value)
JsonLoads(json_str) ==
    LET at(k) == {i \in 2..(Len(json_str) - 1) : json_str[i].k = k}
    IN  [k \in {json_str[i].k : i \in 2..(Len(json_str) - 1)} |-> json_str[Max(at(k))].v]

RequiredFields == {"company", "role", "date_applied", "source", "status", "confidence"}

\* the date strings datetime.strptime(s, '%Y-%m-%d') accepts, among those the replies use
IsoDates == {"2024-01-15"}

\* the except branch of _parse_ai_response
ParseFailure ==
    [company |-> None,
     role |-> None,
     date_applied |-> Now,
     source |-> Str("email"),
     status |-> Str("unclear"),
     confidence |-> Num(0)]

\* "Ensure all required fields exist"
Backfill(data) == [k \in DOMAIN data \cup RequiredFields |-> IF k \in DOMAIN data THEN data[k] ELSE None]

\* "Parse date if it exists"
CoerceDate(data) ==
    LET d == Get(data, "date_applied")
    IN  IF Truthy(d) /\ d.t = "str"
        THEN Put(data, "date_applied", IF d.s \in IsoDates THEN Datetime(d.s) ELSE Now)
        ELSE data

\* "Extract JSON from AI response": from the first "{" to the last "}"
JsonStr(ai_response) ==
    LET json_start == Find(ai_response, LBrace)
        json_end == RFind(ai_response, RBrace) + 1
    IN  PySlice(ai_response, json_start, json_end)

ParseAiResponse(ai_response) ==
    LET json_str == JsonStr(ai_response)
    IN  IF JsonValid(json_str) THEN CoerceDate(Backfill(JsonLoads(json_str)))
        ELSE ParseFailure

(***************************************************************************)
(* AIJobApplicationParser._ai_reasoning_parse.  A transport outcome is     *)
(*   [kind |-> "exception"]               requests.post raised             *)
(*   [kind |-> "response", status_code, json_ok, text]                     *)
(* json_ok: response.json()[0]["generated_text"] evaluates, to text.       *)
(***************************************************************************)
HttpOk == 200

PostException == [kind |-> "exception"]

Response(code, json_ok, text) ==
    [kind |-> "response", status_code |-> code, json_ok |-> json_ok, text |-> text]

\* a response with a non-success status
ServiceUnavailable == Response(503, TRUE, <<>>)

\* a success branch that does not set parsed_data['reasoning']
AiReasoningParseNoReasoning(email_data, outcome) ==
    IF outcome.kind = "exception" THEN FallbackParsing(email_data)
    ELSE IF outcome.status_code = HttpOk
         THEN IF outcome.json_ok
              THEN ParseAiResponse(outcome.text)
              ELSE FallbackParsing(email_data)
         ELSE FallbackParsing(email_data)

AiReasoningParse(email_data, outcome) ==
    IF outcome.kind = "exception" THEN FallbackParsing(email_data)
    ELSE IF outcome.status_code = HttpOk
         THEN IF outcome.json_ok
              THEN Put(ParseAiResponse(outcome.text), "reasoning", RawText(outcome.text))
              ELSE FallbackParsing(email_data)
         ELSE FallbackParsing(email_data)

(***************************************************************************)
(* AIJobApplicationParser.parse_job_email: the test on the pattern result  *)
(***************************************************************************)
StructuredThreshold == 80000

\* a test against the highest provider confidence, which no result exceeds
StructuredFinalHigh(structured_result) ==
    /\ structured_result # None
    /\ structured_result.confidence.n > LeverConfidence

StructuredFinal(structured_result) ==
    /\ structured_result # None
    /\ structured_result.confidence.n > StructuredThreshold

(***************************************************************************)
(* EmailProcessor._should_save_application: "true", "false", or "raise"    *)
(* when confidence >= min_confidence is a TypeError                        *)
(***************************************************************************)
MinConfidence == 60000

\* a test that forgets the placeholder "null"
HasFieldAnyText(parsed_data, k) == Truthy(Get(parsed_data, k))

HasField(parsed_data, k) == Truthy(Get(parsed_data, k)) /\ Get(parsed_data, k) # Str("null")

\* a gate that compares with > instead of >=
ShouldSaveApplicationExclusive(parsed_data) ==
    LET has_company == HasField(parsed_data, "company")
        has_role == HasField(parsed_data, "role")
        confidence == GetOr(parsed_data, "confidence", Num(0))
    IN  IF ~has_company \/ ~has_role THEN "false"
        ELSE IF confidence.t # "num" THEN "raise"
        ELSE IF confidence.n > MinConfidence THEN "true" ELSE "false"

ShouldSaveApplication(parsed_data) ==
    LET has_company == HasField(parsed_data, "company")
        has_role == HasField(parsed_data, "role")
        confidence == GetOr(parsed_data, "confidence", Num(0))
    IN  IF ~has_company \/ ~has_role THEN "false"
        ELSE IF confidence.t # "num" THEN "raise"
        ELSE IF confidence.n >= MinConfidence THEN "true" ELSE "false"

\* str(e) of that TypeError
CompareErrorText(parsed_data) ==
    IF Get(parsed_data, "confidence").t = "none"
    THEN "'>=' not supported between instances of 'NoneType' and 'float'"
    ELSE "'>=' not supported between instances of 'str' and 'float'"

(***************************************************************************)
(* EmailProcessor._save_application: the JobApplication row                *)
(***************************************************************************)
SnippetLen == 500

JobApplication(parsed_data, email_data) ==
    [company |-> Get(parsed_data, "company"),
     role |-> Get(parsed_data, "role"),
     date_applied |-> IF Truthy(Get(parsed_data, "date_applied"))
                      THEN Get(parsed_data, "date_applied") ELSE Now,
     source |-> Str("email"),
     status |-> GetOr(parsed_data, "status", Str("applied")),
     confidence |-> GetOr(parsed_data, "confidence", Num(0)),
     email_snippet |-> Prefix(email_data.body, SnippetLen)]

\* what db.add / db.commit / db.refresh can do
SinkOutcomes == {"ok", "commit_failed", "refresh_failed"}

\* a rollback that discards the rows committed before
SinkAfterRollbackAll(rows, row, outcome) == IF outcome = "commit_failed" THEN <<>> ELSE Append(rows, row)

\* the committed rows after _save_application; rollback discards only the pending row
SinkAfter(rows, row, outcome) == IF outcome = "commit_failed" THEN rows ELSE Append(rows, row)

\* _save_application returns the row, or None from its except branch
SaveReturns(outcome) == outcome = "ok"

(***************************************************************************)
(* EmailProcessor.process_new_emails                                       *)
(*   pc       "start", then per email "pattern" -> ["generative" ->]       *)
(*            "gate" -> ["save"], and "done" once results is returned      *)
(*   emails   the list search_job_emails returned                          *)
(*   idx      the position of email_data in emails                         *)
(*   response what requests.post did for the current email (None before)   *)
(*   parsed   parsed_data of the current email                             *)
(*   results  the summary dict                                             *)
(*   db       the rows committed to the session's database                 *)
(*   calls    per email, the number of requests.post calls made for it     *)
(*   hist     per email that has its outcome record: the response, the     *)
(*            parsed_data, the gate's result and the sink's outcome that   *)
(*            led to it                                                    *)
(***************************************************************************)
NewResults(n) == [total_emails |-> n, processed |-> 0, saved |-> 0, errors |-> 0, details |-> <<>>]

SavedDetail(email_data, parsed_data) ==
    [email_id |-> email_data.id,
     company |-> Get(parsed_data, "company"),
     role |-> Get(parsed_data, "role"),
     confidence |-> Get(parsed_data, "confidence"),
     status |-> "saved"]

ReviewDetail(email_data, parsed_data) ==
    [email_id |-> email_data.id,
     company |-> Get(parsed_data, "company"),
     role |-> Get(parsed_data, "role"),
     confidence |-> Get(parsed_data, "confidence"),
     reasoning |-> Get(parsed_data, "reasoning"),
     status |-> "needs_review"]

\* an except branch that records a fixed message instead of str(e)
ErrorDetailFixedText(email_data, text) ==
    [email_id |-> email_data.id, error |-> "Failed to save to database", status |-> "error"]

ErrorDetail(email_data, text) == [email_id |-> email_data.id, error |-> text, status |-> "error"]

\* the position the loop is at after the email at i has its outcome record
NextIndex(i) == i + 1

\* the for loop's next iteration, or the return
LoopPc(i) == IF i > Len(emails) THEN "done" ELSE "pattern"

Advance ==
    /\ idx' = NextIndex(idx)
    /\ pc' = LoopPc(NextIndex(idx))
    /\ response' = None

Record(gate, sink) ==
    hist' = Append(hist, [email_id |-> emails[idx].id, response |-> response, parsed |-> parsed,
                          gate |-> gate, sink |-> sink])

\* the messages search_job_emails returns: _parse_email gives each its id
MessageId(i) == "m" \o ToString(i)

Message(kind, i) == [id |-> MessageId(i), subject |-> kind.subject, sender |-> kind.sender, body |-> kind.body]

FetchFrom(batches) ==
    /\ pc = "start"
    /\ \E batch \in batches :
        /\ emails' = [i \in 1..Len(batch) |-> Message(batch[i], i)]
        /\ results' = NewResults(Len(batch))
        /\ calls' = [i \in 1..Len(batch) |-> 0]
        /\ pc' = IF Len(batch) = 0 THEN "done" ELSE "pattern"
    /\ idx' = 1
    /\ UNCHANGED <<response, parsed, db, hist>>

\* parse_job_email up to its first return
Pattern ==
    /\ pc = "pattern"
    /\ LET structured_result == TryStructuredParsing(emails[idx])
       IN  IF StructuredFinal(structured_result)
           THEN /\ parsed' = structured_result
                /\ results' = [results EXCEPT !.processed = @ + 1]
                /\ pc' = "gate"
           ELSE /\ pc' = "generative"
                /\ UNCHANGED <<parsed, results>>
    /\ UNCHANGED <<emails, idx, response, db, calls, hist>>

\* parse_job_email's call of _ai_reasoning_parse
GenerativeWith(outcomes) ==
    /\ pc = "generative"
    /\ \E outcome \in outcomes :
        /\ response' = outcome
        /\ parsed' = AiReasoningParse(emails[idx], outcome)
    /\ calls' = [calls EXCEPT ![idx] = @ + 1]
    /\ results' = [results EXCEPT !.processed = @ + 1]
    /\ pc' = "gate"
    /\ UNCHANGED <<emails, idx, db, hist>>

\* the test of _should_save_application, its else branch, and the except branch
Gate ==
    /\ pc = "gate"
    /\ LET gate == ShouldSaveApplication(parsed)
       IN  CASE gate = "true" ->
                    /\ pc' = "save"
                    /\ UNCHANGED <<idx, response, results, hist>>
             [] gate = "false" ->
                    /\ results' = [results EXCEPT
                            !.details = Append(@, ReviewDetail(emails[idx], parsed))]
                    /\ Record("false", "none")
                    /\ Advance
             [] gate = "raise" ->
                    /\ results' = [results EXCEPT
                            !.errors = @ + 1,
                            !.details = Append(@, ErrorDetail(emails[idx], CompareErrorText(parsed)))]
                    /\ Record("raise", "none")
                    /\ Advance
    /\ UNCHANGED <<emails, parsed, db, calls>>

\* _save_application and the two branches on its result
Save ==
    /\ pc = "save"
    /\ \E outcome \in SinkOutcomes :
        /\ db' = SinkAfter(db, JobApplication(parsed, emails[idx]), outcome)
        /\ IF SaveReturns(outcome)
           THEN results' = [results EXCEPT
                    !.saved = @ + 1,
                    !.details = Append(@, SavedDetail(emails[idx], parsed))]
           ELSE results' = [results EXCEPT
                    !.errors = @ + 1,
                    !.details = Append(@, ErrorDetail(emails[idx], "Failed to save to database"))]
        /\ Record("true", outcome)
    /\ Advance
    /\ UNCHANGED <<emails, parsed, calls>>

Init ==
    /\ pc = "start"
    /\ emails = <<>>
    /\ idx = 1
    /\ response = None
    /\ parsed = None
    /\ results = NewResults(0)
    /\ db = <<>>
    /\ calls = <<>>
    /\ hist = <<>>

(***************************************************************************)
(* Inputs                                                                  *)
(***************************************************************************)
MaxBatch == 2

Kind(subject, sender, body) == [subject |-> subject, sender |-> sender, body |-> body]

\* a lever mail with both fields, a lever mail whose company reads "null",
\* and a mail of no known provider
EmailKinds ==
    {Kind("Application received", "jobs@lever.co",
          "Thanks for your application for Senior Engineer position at Acme."),
     Kind("Update", "no-reply@hire.lever.co", "Your position: Dev at null."),
     Kind("Application", "hr@acme.com", "You applied for the developer role at Acme.")}

RECURSIVE SeqsUpTo(_, _)
SeqsUpTo(S, n) ==
    IF n = 0 THEN {<<>>}
    ELSE LET shorter == SeqsUpTo(S, n - 1)
         IN  shorter \cup {Append(q, x) : q \in shorter, x \in S}

Batches == SeqsUpTo(EmailKinds, MaxBatch)

Object(members) == <<LBrace>> \o members \o <<RBrace>>

GoodReply ==
    Object(<<Member("company", Str("Acme")), Member("role", Str("Dev")),
             Member("date_applied", Str("2024-01-15")), Member("source", Str("email")),
             Member("status", Str("applied")), Member("confidence", Num(75000)),
             Member("reasoning", Str("clear"))>>)

\* transport outcomes: a raised request, a non-success status, a body that is not the
\* expected list, text with no object, and replies with a usable, null, low and
\* out-of-range confidence
Outcomes ==
    {PostException,
     ServiceUnavailable,
     Response(HttpOk, FALSE, <<>>),
     Response(HttpOk, TRUE, <<Junk>>),
     Response(HttpOk, TRUE, <<Junk>> \o GoodReply \o <<Junk>>),
     Response(HttpOk, TRUE,
        Object(<<Member("company", Str("Acme")), Member("role", Str("Dev")),
                 Member("confidence", None)>>)),
     Response(HttpOk, TRUE,
        Object(<<Member("company", Str("Acme")), Member("role", Str("Dev")),
                 Member("confidence", Num(30000))>>)),
     Response(HttpOk, TRUE,
        Object(<<Member("company", Str("Acme")), Member("role", Str("Dev")),
                 Member("confidence", Num(150000))>>))}

Fetch == FetchFrom(Batches)

Generative == GenerativeWith(Outcomes)

Next == Fetch \/ Pattern \/ Generative \/ Gate \/ Save

Spec == Init /\ [][Next]_vars

(***************************************************************************)
(* One email at a time, over many texts: the bodies are made of up to      *)
(* MaxFrags fragments                                                      *)
(***************************************************************************)
MaxFrags == 2

Frags ==
    {"at ", " ", "Acme", "null", " position", " application", ": ", " careers", " job",
     " Greenhouse"}

RECURSIVE Concat(_)
Concat(q) == IF q = <<>> THEN "" ELSE Head(q) \o Concat(Tail(q))

Bodies == {Concat(q) : q \in SeqsUpTo(Frags, MaxFrags)}

Subjects == {"Hi", "Position: Dev at", "Acme application for"}

Senders == {"hr@acme.com", "jobs@lever.co", "no-reply@greenhouse.io", "acme@myworkday.com"}

ParseKinds == {Kind(subject, sender, body) : subject \in Subjects, sender \in Senders, body \in Bodies}

ParseOutcomes ==
    {PostException,
     ServiceUnavailable,
     Response(HttpOk, TRUE, <<Junk>>),
     Response(HttpOk, TRUE, GoodReply)}

FetchParse == FetchFrom({<<kind>> : kind \in ParseKinds})

GenerativeParse == GenerativeWith(ParseOutcomes)

NextParse == FetchParse \/ Pattern \/ GenerativeParse \/ Gate \/ Save

SpecParse == Init /\ [][NextParse]_vars

(***************************************************************************)
(* One email at a time, over many generated replies: every combination of  *)
(* a company, a role, a confidence and a date_applied member, each of      *)
(* which may be absent, null, or a value                                   *)
(***************************************************************************)
Absent == [t |-> "absent"]

CompanyValues == {Absent, None, Str(""), Str("null"), Str("Acme")}

RoleValues == {Absent, None, Str(""), Str("null"), Str("Dev")}

ConfidenceValues ==
    {Absent, None, Str("high"), Num(-10000), Num(0), Num(59999), Num(60000), Num(75000),
     Num(100000), Num(150000)}

DateValues == {Absent, Str("2024-01-15"), Str("soon")}

Given(t) == t.v # Absent

ReplyObjects ==
    {Object(SelectSeq(<<Member("company", c), Member("role", r), Member("confidence", cf),
                        Member("date_applied", d)>>, Given)) :
        c \in CompanyValues, r \in RoleValues, cf \in ConfidenceValues, d \in DateValues}

\* text around one object, two objects in one text, and text without a complete object
OtherReplies ==
    {<<>>, <<Junk>>, <<LBrace>>, <<RBrace>>, <<RBrace, LBrace>>, <<Junk, LBrace, Junk, RBrace>>,
     <<Junk>> \o GoodReply \o <<Junk>>,
     GoodReply \o <<Junk>> \o GoodReply}

GateOutcomes ==
    {PostException, ServiceUnavailable, Response(HttpOk, FALSE, <<>>)}
    \cup {Response(HttpOk, TRUE, text) : text \in ReplyObjects \cup OtherReplies}

GateKinds ==
    EmailKinds \cup {Kind("Hi", "a@b.com", "See you at  5pm"), Kind("Hello", "x@y.org", "123")}

FetchGate == FetchFrom({<<kind>> : kind \in GateKinds})

GenerativeGate == GenerativeWith(GateOutcomes)

NextGate == FetchGate \/ Pattern \/ GenerativeGate \/ Gate \/ Save

SpecGate == Init /\ [][NextGate]_vars

(***************************************************************************)
(* Properties                                                              *)
(***************************************************************************)
Normal == {"saved", "needs_review"}

\* C1 (Spec): when the batch is returned there is one outcome record per email, in input
\* order, and total_emails is the number of emails; the record of an email whose
\* processing raised is an 'error' carrying the exception's text, and every other email
\* whose write the sink did not refuse has a normal disposition, raised emails before it
\* or not.
C1_FaultIsolation ==
    pc = "done" =>
        /\ results.total_emails = Len(emails)
        /\ Len(results.details) = Len(emails)
        /\ Len(hist) = Len(emails)
        /\ \A i \in 1..Len(emails) :
            LET d == results.details[i]
            IN  /\ d.email_id = emails[i].id
                /\ hist[i].email_id = emails[i].id
                /\ hist[i].gate = "raise" =>
                        /\ d.status = "error"
                        /\ d.error = CompareErrorText(hist[i].parsed)
                        /\ d.error # ""
                /\ (hist[i].gate # "raise" /\ hist[i].sink \in {"none", "ok"}) =>
                        d.status \in Normal

\* a batch of two whose first email raised and whose second was saved
C1_Witness ==
    /\ pc = "done"
    /\ Len(emails) = 2
    /\ hist[1].gate = "raise"
    /\ results.details[1].status = "error"
    /\ results.details[2].status = "saved"

\* C2 (SpecGate): whatever the transport did (raised, a non-success status, a success
\* status with text that holds no object, or with a well-formed reply), the generative
\* stage hands the gate a dict that has the six required fields and a reasoning that is
\* not None.
C2_GenerativeAlwaysReturns ==
    (pc = "gate" /\ response # None) =>
        /\ RequiredFields \cup {"reasoning"} \subseteq DOMAIN parsed
        /\ parsed["reasoning"] # None

\* a success status with text that holds no object: the reasoning is that text
C2_Witness ==
    /\ pc = "gate"
    /\ response = Response(HttpOk, TRUE, <<Junk>>)
    /\ parsed["reasoning"] = RawText(<<Junk>>)

\* a field that is there and is neither None nor empty text
Present(d, k) == k \in DOMAIN d /\ d[k] # None /\ d[k] # Str("")

\* the claim's condition on an extraction result
Eligible(d) ==
    /\ Present(d, "company") /\ d["company"] # Str("null")
    /\ Present(d, "role") /\ d["role"] # Str("null")
    /\ "confidence" \in DOMAIN d
    /\ d["confidence"].t = "num"
    /\ d["confidence"].n >= 60000

\* C3 (SpecGate): the gate let an email through to the sink if and only if its company and
\* its role are present (not None, not empty) and not the literal "null" and its
\* confidence is at least 0.6, 0.6 itself included.
C3_GateIff ==
    /\ pc = "save" => Eligible(parsed)
    /\ \A i \in 1..Len(hist) : (hist[i].gate = "true") <=> Eligible(hist[i].parsed)

\* a result with confidence exactly 0.6 went to the sink
C3_Witness ==
    /\ Len(hist) = 1
    /\ hist[1].gate = "true"
    /\ hist[1].parsed["confidence"] = Num(60000)
    /\ results.details[1].status = "saved"

\* C4 (SpecGate): every result handed to the gate has a confidence in [0.0, 1.0].
C4_ConfidenceInRange ==
    pc = "gate" =>
        /\ parsed["confidence"].t = "num"
        /\ parsed["confidence"].n >= 0
        /\ parsed["confidence"].n <= 100000

\* the generative endpoint answered with success and text that json.loads rejects
MalformedReply(r) ==
    /\ r # None
    /\ r.kind = "response"
    /\ r.status_code = HttpOk
    /\ r.json_ok
    /\ ~JsonValid(JsonStr(r.text))

\* requests.post raised, a non-success status, or a body that is not the expected list
TransportFailure(r) ==
    /\ r # None
    /\ (r.kind = "exception" \/ r.status_code # HttpOk \/ ~r.json_ok)

\* C5 (SpecGate): after a success status with text that cannot be parsed, the result has the
\* company, role, status and confidence _fallback_parsing gives for the same email.
C5_MalformedReplyIsFallback ==
    (pc = "gate" /\ MalformedReply(response)) =>
        \A k \in {"company", "role", "status", "confidence"} :
            parsed[k] = FallbackParsing(emails[idx])[k]

\* C6 (Spec): an email that went to the generative stage and whose write, if any, the sink
\* accepted, has the disposition 'saved' or 'needs_review'.
C6_GenerativeNeverError ==
    \A i \in 1..Len(hist) :
        (calls[i] = 1 /\ hist[i].sink \in {"none", "ok"}) => results.details[i].status \in Normal

\* C7 as stated (SpecParse): an email whose result is the pattern stage's passes the gate
\* and does not end as 'needs_review'.
C7_PatternResultPassesGate ==
    \A i \in 1..Len(hist) :
        hist[i].response = None =>
            /\ hist[i].gate = "true"
            /\ results.details[i].status # "needs_review"

Blank == {Str(""), Str("null")}

\* C7 (SpecParse), amended: a pattern stage result has a confidence of at least 0.85, the
\* gate does not raise on it, and it passes the gate if and only if neither its company
\* nor its role is empty after trimming or the word "null"; otherwise the email ends as
\* 'needs_review'.
C7_PatternResultGate ==
    \A i \in 1..Len(hist) :
        hist[i].response = None =>
            /\ hist[i].parsed["confidence"].t = "num"
            /\ hist[i].parsed["confidence"].n >= 85000
            /\ hist[i].gate \in {"true", "false"}
            /\ (hist[i].gate = "true") <=>
                    (hist[i].parsed["company"] \notin Blank /\ hist[i].parsed["role"] \notin Blank)
            /\ hist[i].gate = "false" => results.details[i].status = "needs_review"

\* a pattern result whose company is empty after trimming ended as 'needs_review'
C7_Witness ==
    /\ Len(hist) = 1
    /\ hist[1].response = None
    /\ hist[1].parsed["company"] = Str("")
    /\ results.details[1].status = "needs_review"

AnyPatternMatches(email) ==
    \/ \E i \in 1..Len(CompanyPatterns) : Search(CompanyPatterns[i], SearchText(email)).m
    \/ \E i \in 1..Len(RolePatterns) : Search(RolePatterns[i], SearchText(email)).m

\* C8 as stated (SpecParse): the fallback result has confidence 0.3 and status 'applied'
\* when one of the company or role patterns matches the text, and 0.0 and 'unclear' when
\* none does.
C8_FallbackConfidenceByMatch ==
    (pc = "gate" /\ TransportFailure(response)) =>
        IF AnyPatternMatches(emails[idx])
        THEN parsed["confidence"] = Num(30000) /\ parsed["status"] = Str("applied")
        ELSE parsed["confidence"] = Num(0) /\ parsed["status"] = Str("unclear")

\* C8 (SpecParse), amended: the fallback result has confidence 0.3 and status 'applied' when
\* its company or its role is a non-empty text, and 0.0 and 'unclear' otherwise; a field is
\* None exactly when none of its patterns matches, and a pattern that matches only
\* whitespace leaves it empty.
C8_FallbackConfidenceByField ==
    (pc = "gate" /\ TransportFailure(response)) =>
        LET text == SearchText(emails[idx])
            found(v) == v # None /\ v # Str("")
        IN  /\ IF found(parsed["company"]) \/ found(parsed["role"])
               THEN parsed["confidence"] = Num(30000) /\ parsed["status"] = Str("applied")
               ELSE parsed["confidence"] = Num(0) /\ parsed["status"] = Str("unclear")
            /\ (parsed["company"] = None) <=>
                    ~\E i \in 1..Len(CompanyPatterns) : Search(CompanyPatterns[i], text).m
            /\ (parsed["role"] = None) <=>
                    ~\E i \in 1..Len(RolePatterns) : Search(RolePatterns[i], text).m

\* a company pattern matched only whitespace and nothing else matched: 0.0, 'unclear'
C8_Witness ==
    /\ pc = "gate"
    /\ TransportFailure(response)
    /\ AnyPatternMatches(emails[idx])
    /\ parsed["company"] = Str("")
    /\ parsed["confidence"] = Num(0)
    /\ parsed["status"] = Str("unclear")

\* the pattern stage gave a result with confidence > 0.8
PatternFinal(email) ==
    LET r == TryStructuredParsing(email)
    IN  r # None /\ r["confidence"].n > 80000

\* C9 (Spec): per email the endpoint is requested at most once, after the pattern stage and
\* before the gate, and only when the pattern stage gave no result with confidence > 0.8;
\* while an email is in one of its stages, every email before it has its outcome record and
\* no email after it has been requested.
C9_StageOrder ==
    /\ \A i \in 1..Len(calls) :
        /\ calls[i] <= 1
        /\ PatternFinal(emails[i]) => calls[i] = 0
        /\ i > idx => calls[i] = 0
    /\ pc \in {"pattern", "generative", "gate", "save"} =>
        /\ idx \in 1..Len(emails)
        /\ Len(results.details) = idx - 1
        /\ Len(hist) = idx - 1
    /\ pc \in {"pattern", "generative"} => calls[idx] = 0
    /\ pc = "generative" => ~PatternFinal(emails[idx])
    /\ pc \in {"gate", "save"} => (calls[idx] = 1 <=> ~PatternFinal(emails[idx]))
    /\ pc = "done" => Len(results.details) = Len(emails)

\* the request for the first email raised and was not repeated; the second email's
\* pattern result was final and the endpoint was not requested for it
C9_Witness ==
    /\ pc = "done"
    /\ Len(emails) = 2
    /\ hist[1].response = PostException
    /\ calls = <<1, 0>>
    /\ PatternFinal(emails[2])

Written(i) == hist[i].sink \in {"ok", "refresh_failed"}

RECURSIVE RowsOf(_)
\* the rows of the first n emails whose commit went through, in order
RowsOf(n) ==
    IF n = 0 THEN <<>>
    ELSE IF Written(n) THEN Append(RowsOf(n - 1), JobApplication(hist[n].parsed, emails[n]))
    ELSE RowsOf(n - 1)

\* C10 (Spec): an email whose write failed has an 'error' record with a message, the emails
\* after it are processed, and the sink holds exactly the rows of the emails whose commit
\* went through: the failed write removed none of them.
C10_SinkFailureLocal ==
    /\ \A i \in 1..Len(hist) :
        hist[i].sink = "commit_failed" =>
            /\ results.details[i].status = "error"
            /\ results.details[i].error = "Failed to save to database"
    /\ db = RowsOf(Len(hist))
    /\ pc = "done" => Len(hist) = Len(emails)

\* the first email was saved, the second email's write failed, the first row is there
C10_Witness ==
    /\ pc = "done"
    /\ Len(emails) = 2
    /\ hist[1].sink = "ok"
    /\ hist[2].sink = "commit_failed"
    /\ results.details[1].status = "saved"
    /\ results.details[2].status = "error"
    /\ Len(db) = 1

ProviderOrder == <<"lever", "greenhouse", "workday">>

\* the claim's constants: 0.9, 0.9, 0.85
ProviderConfidence(p) ==
    CASE p = "lever" -> 90000
      [] p = "greenhouse" -> 90000
      [] p = "workday" -> 85000

\* the provider's name is in the sender as given, or in the lowercased body
Mentions(email, p) == Contains(email.sender, p) \/ Contains(Lower(email.body), p)

\* the first provider of the order the email mentions ("" when it mentions none)
FirstProvider(email) ==
    LET hits == {i \in 1..Len(ProviderOrder) : Mentions(email, ProviderOrder[i])}
    IN  IF hits = {} THEN "" ELSE ProviderOrder[Min(hits)]

BothMatch(email, p) ==
    /\ Search(Patterns(p).company_pattern, SearchText(email)).m
    /\ Search(Patterns(p).role_pattern, SearchText(email)).m

\* C11 (SpecParse): the pattern stage gives a result exactly when the first provider, in
\* the order lever, greenhouse, workday, that the sender or the body mentions has both its
\* company and its role pattern matching the text; the result carries that provider's
\* confidence (0.9, 0.9, 0.85, at least 0.85) and names it in its reasoning.  Otherwise,
\* also when a later provider's patterns would match and when no provider is mentioned,
\* the stage gives 'no match' and the email goes to the generative stage.
C11_AllOrNothing ==
    pc \in {"generative", "gate", "save"} =>
        LET e == emails[idx]
            p == FirstProvider(e)
        IN  IF pc # "generative" /\ calls[idx] = 0
            THEN /\ p # ""
                 /\ BothMatch(e, p)
                 /\ parsed["confidence"] = Num(ProviderConfidence(p))
                 /\ parsed["confidence"].n >= 85000
                 /\ parsed["reasoning"] = Str("Parsed using " \o p \o " ATS patterns")
            ELSE p = "" \/ ~BothMatch(e, p)

\* a lever sender and a body that names greenhouse: lever's patterns do not both match,
\* greenhouse's would, and the stage gave 'no match'
C11_Witness ==
    /\ pc = "generative"
    /\ Contains(emails[idx].sender, "lever")
    /\ Contains(Lower(emails[idx].body), "greenhouse")
    /\ ~BothMatch(emails[idx], "lever")
    /\ BothMatch(emails[idx], "greenhouse")

\* the number of outcome records with the given disposition
CountStatus(details, status) == Cardinality({i \in 1..Len(details) : details[i].status = status})

\* C12 (Spec): after a batch, 'saved' is the number of 'saved' outcome records and the
\* number of rows the batch committed to the sink, 'errors' is the number of 'error'
\* outcome records, and an email recorded as 'error' or 'needs_review' has left no row
\* in the sink.
C12_CountersAgree ==
    pc = "done" =>
        /\ results.saved = CountStatus(results.details, "saved")
        /\ results.saved = Len(db)
        /\ results.errors = CountStatus(results.details, "error")
        /\ \A i \in 1..Len(results.details) :
               results.details[i].status \in {"error", "needs_review"} => ~Written(i)

====
